---- MODULE Spec2Model ----
(***************************************************************************)
(* Model of sealgoo.py: the top-level batch loop, process_domain,          *)
(* handle_captcha and download_file, with the per-domain SQLite ledger,    *)
(* the browser session and the download directory as state.                *)
(*                                                                         *)
(* Text values (URLs, page addresses, file types, file names) are          *)
(* sequences of one-character strings, so that lower(), substring tests    *)
(* and path splitting are computed as the code computes them.              *)
(***************************************************************************)
EXTENDS Integers, Sequences, FiniteSets, TLC

\* ------------------------------------------------------------------ bounds
\* Number of domains the operator enters for one batch.
NumDomains == 2
\* Number of file types handed to process_domain (a prefix of FILE_TYPES).
NumFileTypes == 2
\* Total number of result containers the search pages return over one batch.
MaxLinks == 3
\* Total number of exceptions the collaborators raise over one batch.
MaxFaults == 1

\* ------------------------------------------------------- program constants
FILE_TYPES ==
    << <<"p","d","f">>, <<"x","l","s","x">>, <<"p","p","t","x">>,
       <<"d","o","c","x">>, <<"c","s","v">> >>

\* The status code download_file treats as success.
HTTP_OK == 200

\* "sorry": the address substring that marks a challenge page.
FAILURE_MARKER == <<"s","o","r","r","y">>

\* "search": the address substring that marks a solved challenge.
SUCCESS_MARKER == <<"s","e","a","r","c","h">>

\* The (By, value) pairs tried in order by handle_captcha.
captcha_indicators == <<"id:recaptcha", "class:g-recaptcha",
                        "text:prove you are human", "text:not a robot">>

\* ------------------------------------------------------------ text helpers
UPPER == <<"A","B","C","D","E","F","G","H","I","J","K","L","M",
           "N","O","P","Q","R","S","T","U","V","W","X","Y","Z">>
LOWER == <<"a","b","c","d","e","f","g","h","i","j","k","l","m",
           "n","o","p","q","r","s","t","u","v","w","x","y","z">>

LowerChar(c) ==
    IF \E i \in 1..Len(UPPER) : UPPER[i] = c
    THEN LOWER[CHOOSE i \in 1..Len(UPPER) : UPPER[i] = c]
    ELSE c

\* str.lower()
Lower(s) == [i \in 1..Len(s) |-> LowerChar(s[i])]

\* sub in s
Contains(s, sub) ==
    \E i \in 1..(Len(s) - Len(sub) + 1) : SubSeq(s, i, i + Len(sub) - 1) = sub

\* pathlib drops trailing separators before it splits a path
RECURSIVE StripSlashes(_)
StripSlashes(s) ==
    IF s # <<>> /\ s[Len(s)] = "/" THEN StripSlashes(SubSeq(s, 1, Len(s) - 1)) ELSE s

RECURSIVE LastComponent(_)
LastComponent(s) ==
    IF s = <<>> THEN <<>>
    ELSE IF s[Len(s)] = "/" THEN <<>>
    ELSE Append(LastComponent(SubSeq(s, 1, Len(s) - 1)), s[Len(s)])

\* Path(urlparse(url).path).name : the text after the last "/"
Basename(s) == LastComponent(StripSlashes(s))

\* f".{file_type}" in url.lower()
MatchesFileType(url, file_type) == Contains(Lower(url), <<".">> \o file_type)

\* ------------------------------------------------------- inputs (bounded)
DomainPool == <<"a.com", "b.com", "c.com", "d.com">>
DomainNames == {DomainPool[i] : i \in 1..Len(DomainPool)}

\* The domain lists the operator can type: pairwise distinct domains, or a
\* list whose last entry repeats the first (the same ledger is opened twice).
DomainLists ==
    { [i \in 1..NumDomains |-> DomainPool[i]],
      [i \in 1..NumDomains |-> IF i = NumDomains THEN DomainPool[1]
                                                ELSE DomainPool[i]] }

\* What the operator can type as the ChromeDriver path.
DriverPathKinds == {"missing", "directory", "not_executable", "ok"}

\* Result links (the path part of the href).
URL_a_pdf  == <<"/","a",".","p","d","f">>
URL_B_PDF  == <<"/","B",".","P","D","F">>
URL_c_docx == <<"/","c",".","d","o","c","x">>
URL_d_xlsx == <<"/","d",".","x","l","s","x">>

\* A result container without an anchor, or whose anchor has no href.
NoLink == <<"<no href>">>

\* The result containers a search page can hold.
Pages ==
    { <<>>,
      <<URL_d_xlsx>>,
      <<URL_a_pdf, NoLink>>,
      <<URL_a_pdf, URL_B_PDF, URL_c_docx>> }

\* Page addresses the browser can report.
ADDR_search == <<"/","s","e","a","r","c","h","?","q">>
ADDR_Sorry  == <<"/","S","o","r","r","y","/","i">>
ADDR_home   == <<"/","w","e","b","h","p">>
Addresses == {ADDR_search, ADDR_Sorry, ADDR_home}
Unread == <<"<unread>">>

\* content-length header of a response
Header(kind, value) == [kind |-> kind, value |-> value]
NoResponse == [status_code |-> 0, content_length |-> Header("none", 0)]
Responses ==
    { [status_code |-> 200, content_length |-> Header("int", 3)],
      [status_code |-> 200, content_length |-> Header("int", -1)],
      [status_code |-> 404, content_length |-> Header("absent", 0)],
      [status_code |-> 404, content_length |-> Header("text", 0)] }

\* Seconds between two readings of time.time().
Elapsed == {1}

\* --------------------------------------------------------- download_file
\* create_domain_directory(domain): the directory DOWNLOAD_DIR / domain
create_domain_directory(domain) == <<"downloaded_files", domain>>

\* filename = Path(parsed_url.path).name, or the synthesized name when empty
ResolveFilename(url, domain, file_type) ==
    IF Basename(url) # <<>> THEN Basename(url)
    ELSE <<domain, "_", "<time>", ".">> \o file_type

\* local_path = domain_dir / filename
LocalPath(url, domain, file_type) ==
    [dir |-> create_domain_directory(domain),
     name |-> ResolveFilename(url, domain, file_type)]

\* int(response.headers.get("content-length", 0)) raises on a non-numeric value
HeaderRaises(resp) == resp.content_length.kind = "text"

ParseContentLength(resp) ==
    IF resp.content_length.kind = "int" THEN resp.content_length.value ELSE 0

\* The stage at which the try block raises, "none" when it runs to its return.
RaisedAt(e) ==
    IF e.tryFault \in {"mkdir", "urlparse", "get"} THEN e.tryFault
    ELSE IF HeaderRaises(e.resp) THEN "header"
    ELSE e.tryFault

\* The local names bound when the try block raises at a stage.
LocalsAt(stage) ==
    CASE stage = "mkdir"    -> {}
      [] stage = "urlparse" -> {"domain_dir"}
      [] stage = "get"      -> {"domain_dir", "parsed_url", "filename",
                                "local_path", "start_time"}
      [] stage = "header"   -> {"domain_dir", "parsed_url", "filename",
                                "local_path", "start_time", "response",
                                "download_duration"}
      [] OTHER              -> {"domain_dir", "parsed_url", "filename",
                                "local_path", "start_time", "response",
                                "download_duration", "file_size", "http_status"}

\* Mutant: >= instead of ==, every response from 200 upwards is a success.
StatusOutcome_at_least_200(status_code) ==
    IF status_code >= HTTP_OK THEN "SUCCESS" ELSE "FAILED"

\* if response.status_code == 200: ... else: ...
StatusOutcome(status_code) == IF status_code = HTTP_OK THEN "SUCCESS" ELSE "FAILED"

Status(word) == <<word>>
\* Mutant: the status is str(e) alone, without the "ERROR:" prefix.
ErrorStatus_no_prefix(detail) == <<detail>>

\* f"ERROR: {str(e)}"
ErrorStatus(detail) == <<"ERROR:", detail>>

Row(url, file_type, local_filename, status, size, duration, http) ==
    [url |-> url, file_type |-> file_type, local_filename |-> local_filename,
     download_status |-> status, file_size |-> size,
     download_duration |-> duration, http_status |-> http]

\* What the call leaves of the local file: the body is written only on the
\* SUCCESS branch; open() creates the file, a failing stream leaves it partial.
FileWritten(e) ==
    IF RaisedAt(e) \in {"mkdir", "urlparse", "get", "header"} THEN "none"
    ELSE IF StatusOutcome(e.resp.status_code) # "SUCCESS" THEN "none"
    ELSE IF RaisedAt(e) = "open" THEN "none"
    ELSE IF RaisedAt(e) = "stream" THEN "partial"
    ELSE "complete"

\* Mutant: the SUCCESS row is inserted before the body is written, so it is
\* there when the stream raises part-way.
TryInserted_before_body(url, domain, file_type, e) ==
    IF RaisedAt(e) \in {"none", "commit", "stream"}
    THEN << Row(url, file_type, LocalPath(url, domain, file_type),
                Status(StatusOutcome(e.resp.status_code)),
                ParseContentLength(e.resp), e.elapsed, e.resp.status_code) >>
    ELSE <<>>

\* Rows the try block has inserted when it ends (by return or by raising).
TryInserted(url, domain, file_type, e) ==
    IF RaisedAt(e) \in {"none", "commit"}
    THEN << Row(url, file_type, LocalPath(url, domain, file_type),
                Status(StatusOutcome(e.resp.status_code)),
                ParseContentLength(e.resp), e.elapsed, e.resp.status_code) >>
    ELSE <<>>

\* The except block's third value: str(local_path) if bound, else filename;
\* reading an unbound filename raises before anything is inserted.
HandlerNameRaises(locals) == ("local_path" \notin locals) /\ ("filename" \notin locals)

\* What the collaborators do during one call: the stage of the try block at
\* which an exception is injected (or "none"), the ledger operation of the
\* except block that raises (or "none"), the response and the clock.
DownloadEnvs ==
    { e \in [tryFault : {"none", "mkdir", "urlparse", "get", "open", "stream",
                         "insert", "commit"},
             hFault   : {"none", "insert", "commit"},
             resp     : Responses \cup {NoResponse},
             elapsed  : Elapsed] :
        \* no response exists when the call raises before or in requests.get
        /\ (e.tryFault \in {"mkdir", "urlparse", "get"}) <=> (e.resp = NoResponse)
        \* the file is opened only for a 200 response whose header parsed
        /\ (e.tryFault \in {"open", "stream"}) =>
               (e.resp.status_code = HTTP_OK /\ e.resp.content_length.kind # "text")
        /\ (e.tryFault \in {"insert", "commit"}) =>
               (e.resp.content_length.kind # "text")
        \* the except block runs its ledger operations only when the try
        \* block raised and the row's values could be built
        /\ (RaisedAt(e) = "none" \/ HandlerNameRaises(LocalsAt(RaisedAt(e)))) =>
               (e.hFault = "none") }

\* Number of failures of one call: a ledger that failed in the try block
\* and fails again in the except block is one failure, not two.
FaultCost(e) ==
    (IF e.tryFault = "none" THEN 0 ELSE 1)
    + (IF e.hFault = "none" \/ e.tryFault \in {"insert", "commit"} THEN 0 ELSE 1)

\* The row the except block inserts.
ErrorRow(url, domain, file_type, e) ==
    LET locals == LocalsAt(RaisedAt(e))
    IN Row(url, file_type, LocalPath(url, domain, file_type),
           ErrorStatus(RaisedAt(e)),
           0,
           IF "start_time" \in locals THEN e.elapsed ELSE 0,
           IF "response" \in locals THEN e.resp.status_code ELSE 0)

\* download_file(url, domain, file_type, cursor, conn) under environment e:
\*   ret       "True", "False", or "raise" when an exception leaves the call
\*   inserted  the rows the call inserted, in order
\*   committed whether the call's last commit succeeded
\*   wrote     what the call left of the local file
download_file(url, domain, file_type, e) ==
    LET tried == TryInserted(url, domain, file_type, e)
        wrote == FileWritten(e)
    IN IF RaisedAt(e) = "none"
       THEN [ret |-> IF StatusOutcome(e.resp.status_code) = "SUCCESS"
                     THEN "True" ELSE "False",
             inserted |-> tried, committed |-> TRUE, wrote |-> wrote]
       ELSE IF HandlerNameRaises(LocalsAt(RaisedAt(e))) \/ e.hFault = "insert"
       THEN [ret |-> "raise", inserted |-> tried, committed |-> FALSE,
             wrote |-> wrote]
       ELSE IF e.hFault = "commit"
       THEN [ret |-> "raise",
             inserted |-> Append(tried, ErrorRow(url, domain, file_type, e)),
             committed |-> FALSE, wrote |-> wrote]
       ELSE [ret |-> "False",
             inserted |-> Append(tried, ErrorRow(url, domain, file_type, e)),
             committed |-> TRUE, wrote |-> wrote]

\* --------------------------------------------------------- handle_captcha
\* captcha_found after the indicator loop: some indicator's wait succeeded
\* (a wait that times out or raises is caught inside the loop).
CaptchaFound(matches) == \E i \in 1..Len(captcha_indicators) : i \in matches

\* Mutant: the address is tested for the success marker instead of the
\* failure marker.
ChallengePresent_wrong_marker(captcha_found, address) ==
    captcha_found \/ Contains(Lower(address), SUCCESS_MARKER)

\* if captcha_found or "sorry" in driver.current_url.lower():
ChallengePresent(captcha_found, address) ==
    captcha_found \/ Contains(Lower(address), FAILURE_MARKER)

\* Mutant: the wait's timeout is swallowed and the call goes on to return True.
VerificationSucceeds_timeout_ignored(address) == TRUE

\* WebDriverWait(driver, 10).until(EC.url_contains("search"))
VerificationSucceeds(address) == Contains(address, SUCCESS_MARKER)

\* Mutant: input() stands outside the try statement, so its exception leaves
\* handle_captcha and reaches process_domain's except and finally blocks.
CaptchaExceptionTarget_input_outside_try(stage) ==
    IF stage = "input" THEN "pd_quit" ELSE "pd_check"

\* Where control goes when a step of handle_captcha raises: the outer
\* except block returns False to process_domain's check of the result.
CaptchaExceptionTarget(stage) == "pd_check"

\* Mutant: break instead of continue, the remaining file types are dropped.
AfterCaptcha_break(result) == IF result THEN "pd_page" ELSE "pd_quit"

\* if not handle_captcha(...): continue   /   else read the page
AfterCaptcha(result) == IF result THEN "pd_page" ELSE "pd_loop"

\* ----------------------------------------------------------------- main
\* if not Path(driver_path).exists(): quit()
PathAccepted(kind) == kind # "missing"

\* setup_selenium_driver: exists(), is_file() and os.access(X_OK) must hold
DriverPathValid(kind) == kind = "ok"

\* if link and "href" in link.attrs: ... if f".{file_type}" in url.lower():
IsCandidate(result, file_type) ==
    result # NoLink /\ MatchesFileType(result, file_type)

\* The links of a page that download_file is to be called with, in order.
Candidates(results, file_type) ==
    SelectSeq(results, LAMBDA r : IsCandidate(r, file_type))

\* process_domain is called with FILE_TYPES; the model runs a prefix of it.
file_types == SubSeq(FILE_TYPES, 1, NumFileTypes)

\* ------------------------------------------------------------------ state
VARIABLES
    pc,             \* position of the single thread of control
    driver_path,    \* what the operator typed as the ChromeDriver path
    domains,        \* the domain list the operator typed
    di,             \* index into domains of the current process_domain call
    fi,             \* index into file_types of the current file type
    conns,          \* process_domain calls whose ledger connection is open
    sessions,       \* process_domain calls whose browser session is open
    ledger,         \* committed rows of each domain's downloads table
    pending,        \* rows inserted on the open connection, not committed
    files,          \* files under the download directory
    faults,         \* exceptions raised so far by the collaborators
    links_used,     \* result containers returned so far
    hc,             \* the current or last handle_captcha call
    search_results, \* the result containers of the current file type
    li,             \* index into search_results
    invoked,        \* URLs download_file was called with, current file type
    extracted,      \* whether the page of the current file type was read
    run_base,       \* rows in the domain's ledger when it was opened
    last,           \* the download_file call that has just ended, if any
    batch_error,    \* whether an exception reached the top-level except
    delayed         \* whether time.sleep(2) has run since the last search

vars == << pc, driver_path, domains, di, fi, conns, sessions, ledger, pending,
           files, faults, links_used, hc, search_results, li, invoked,
           extracted, run_base, last, batch_error, delayed >>

HcIdle ==
    [state |-> "idle", captcha_found |-> FALSE, address |-> Unread,
     prompted |-> FALSE, confirmed |-> FALSE, verified |-> FALSE,
     address2 |-> Unread, raised |-> "none", result |-> FALSE]

NoCall ==
    [called |-> FALSE, url |-> <<>>, domain |-> "", file_type |-> <<>>,
     env |-> [tryFault |-> "none", hFault |-> "none", resp |-> NoResponse,
              elapsed |-> 0],
     ret |-> "none", rows |-> <<>>, wrote |-> "none"]

domain == domains[di]
file_type == file_types[fi]

Init ==
    /\ pc = "main_input"
    /\ driver_path \in DriverPathKinds
    /\ domains \in DomainLists
    /\ di = 0
    /\ fi = 0
    /\ conns = {}
    /\ sessions = {}
    /\ ledger = [d \in DomainNames |-> <<>>]
    /\ pending = <<>>
    /\ files = {}
    /\ faults = 0
    /\ links_used = 0
    /\ hc = HcIdle
    /\ search_results = <<>>
    /\ li = 0
    /\ invoked = <<>>
    /\ extracted = FALSE
    /\ run_base = 0
    /\ last = NoCall
    /\ batch_error = FALSE
    /\ delayed = FALSE

\* A collaborator may raise while the fault budget lasts.
CanFault == faults < MaxFaults

\* ------------------------------------------------------- __main__ actions
\* driver_path = input(...); if not Path(driver_path).exists(): quit()
MainCheckPath ==
    /\ pc = "main_input"
    /\ pc' = IF PathAccepted(driver_path) THEN "main_loop" ELSE "done"
    /\ UNCHANGED << driver_path, domains, di, fi, conns, sessions, ledger,
                    pending, files, faults, links_used, hc, search_results,
                    li, invoked, extracted, run_base, last,
                    batch_error, delayed >>

\* for domain in domains: process_domain(domain, driver_path, FILE_TYPES)
MainNextDomain ==
    /\ pc = "main_loop"
    /\ di < NumDomains
    /\ di' = di + 1
    /\ fi' = 0
    /\ pc' = "pd_db"
    /\ UNCHANGED << driver_path, domains, conns, sessions, ledger, pending,
                    files, faults, links_used, hc, search_results, li,
                    invoked, extracted, run_base, last,
                    batch_error, delayed >>

\* the for loop over domains is exhausted
MainFinish ==
    /\ pc = "main_loop"
    /\ di = NumDomains
    /\ pc' = "done"
    /\ UNCHANGED << driver_path, domains, di, fi, conns, sessions, ledger,
                    pending, files, faults, links_used, hc, search_results,
                    li, invoked, extracted, run_base, last,
                    batch_error, delayed >>

\* Mutant: the try statement stands inside the for loop, so the loop goes on
\* with the next domain after an exception left process_domain.
MainExcept_inside_loop ==
    /\ pc' = "main_loop"
    /\ batch_error' = TRUE

\* An exception leaves process_domain: the top-level except prints it and
\* the program ends; the remaining domains are not processed.
MainExcept ==
    /\ pc' = "done"
    /\ batch_error' = TRUE

\* ------------------------------------------------- process_domain actions
\* Mutant: the table is dropped and created anew each time the ledger is
\* opened.
CreateTable_dropping_rows(rows) == <<>>

\* CREATE TABLE IF NOT EXISTS downloads (...): the rows of a table that
\* exists already are kept as they are.
CreateTableIfNotExists(rows) == rows

\* conn, cursor = setup_domain_database(domain)
SetupDatabase ==
    /\ pc = "pd_db"
    /\ conns' = conns \cup {di}
    /\ ledger' = [ledger EXCEPT ![domain] = CreateTableIfNotExists(@)]
    /\ pending' = <<>>
    /\ run_base' = Len(ledger'[domain])
    /\ pc' = "pd_driver"
    /\ UNCHANGED << driver_path, domains, di, fi, sessions, files,
                    faults, links_used, hc, search_results, li, invoked,
                    extracted, last, batch_error, delayed >>

\* setup_domain_database raises (sqlite3.Error, OSError): no connection
SetupDatabaseFails ==
    /\ pc = "pd_db"
    /\ CanFault
    /\ faults' = faults + 1
    /\ MainExcept
    /\ UNCHANGED << driver_path, domains, di, fi, conns, sessions, ledger,
                    pending, files, links_used, hc, search_results, li,
                    invoked, extracted, run_base, last, delayed >>

\* driver = setup_selenium_driver(driver_path)
SetupDriver ==
    /\ pc = "pd_driver"
    /\ DriverPathValid(driver_path)
    /\ sessions' = sessions \cup {di}
    /\ pc' = "pd_loop"
    /\ UNCHANGED << driver_path, domains, di, fi, conns, ledger, pending,
                    files, faults, links_used, hc, search_results, li,
                    invoked, extracted, run_base, last,
                    batch_error, delayed >>

\* setup_selenium_driver raises on a path that is no executable file; the
\* call stands before the try statement, so nothing of process_domain runs
\* after it and the exception reaches the top level.
SetupDriverRejectsPath ==
    /\ pc = "pd_driver"
    /\ ~DriverPathValid(driver_path)
    /\ MainExcept
    /\ UNCHANGED << driver_path, domains, di, fi, conns, sessions, ledger,
                    pending, files, faults, links_used, hc, search_results,
                    li, invoked, extracted, run_base, last, delayed >>

\* webdriver.Chrome(...) raises although the path is valid
SetupDriverFails ==
    /\ pc = "pd_driver"
    /\ DriverPathValid(driver_path)
    /\ CanFault
    /\ faults' = faults + 1
    /\ MainExcept
    /\ UNCHANGED << driver_path, domains, di, fi, conns, sessions, ledger,
                    pending, files, links_used, hc, search_results, li,
                    invoked, extracted, run_base, last, delayed >>

\* for file_type in file_types: ... handle_captcha(driver, search_url)
NextFileType ==
    /\ pc = "pd_loop"
    /\ fi < Len(file_types)
    /\ fi' = fi + 1
    /\ hc' = [HcIdle EXCEPT !.state = "running"]
    /\ search_results' = <<>>
    /\ li' = 0
    /\ invoked' = <<>>
    /\ extracted' = FALSE
    /\ pc' = "hc_get"
    /\ delayed' = FALSE
    /\ UNCHANGED << driver_path, domains, di, conns, sessions, ledger,
                    pending, files, faults, links_used, run_base,
                    last, batch_error >>

\* the for loop over file types is exhausted: on to the finally block
FileTypesDone ==
    /\ pc = "pd_loop"
    /\ fi = Len(file_types)
    /\ pc' = "pd_quit"
    /\ UNCHANGED << driver_path, domains, di, fi, conns, sessions, ledger,
                    pending, files, faults, links_used, hc, search_results,
                    li, invoked, extracted, run_base, last,
                    batch_error, delayed >>

\* ------------------------------------------------- handle_captcha actions
\* A step of handle_captcha raises inside the outer try.
CaptchaRaises(stage) ==
    /\ CanFault
    /\ faults' = faults + 1
    /\ pc' = CaptchaExceptionTarget(stage)
    /\ hc' = [hc EXCEPT !.raised = stage,
                        !.result = FALSE,
                        !.state = IF CaptchaExceptionTarget(stage) = "pd_check"
                                  THEN "returned" ELSE "propagated"]
    /\ UNCHANGED << driver_path, domains, di, fi, conns, sessions, ledger,
                    pending, files, links_used, search_results, li, invoked,
                    extracted, run_base, last, batch_error, delayed >>

\* handle_captcha returns a value
CaptchaReturns(record, result) ==
    /\ hc' = [record EXCEPT !.state = "returned", !.result = result]
    /\ pc' = "pd_check"

\* driver.get(url)
CaptchaNavigate ==
    /\ pc = "hc_get"
    /\ pc' = "hc_detect"
    /\ UNCHANGED << driver_path, domains, di, fi, conns, sessions, ledger,
                    pending, files, faults, links_used, hc, search_results,
                    li, invoked, extracted, run_base, last,
                    batch_error, delayed >>

CaptchaNavigateFails ==
    /\ pc = "hc_get"
    /\ CaptchaRaises("get")

\* The indicator loop, then the condition of line 161. current_url is read
\* only when no indicator matched (the "or" short-circuits). When a
\* challenge is present the prompt is printed and input() blocks.
CaptchaDetect ==
    /\ pc = "hc_detect"
    /\ \E matches \in SUBSET (1..Len(captcha_indicators)) :
         \E addr \in IF CaptchaFound(matches) THEN {Unread} ELSE Addresses :
           LET found == CaptchaFound(matches)
               seen  == [hc EXCEPT !.captcha_found = found, !.address = addr]
           IN IF ChallengePresent(found, addr)
              THEN /\ hc' = [seen EXCEPT !.prompted = TRUE]
                   /\ pc' = "hc_input"
              ELSE CaptchaReturns(seen, TRUE)
    /\ UNCHANGED << driver_path, domains, di, fi, conns, sessions, ledger,
                    pending, files, faults, links_used, search_results, li,
                    invoked, extracted, run_base, last,
                    batch_error, delayed >>

\* driver.current_url raises after no indicator matched
CaptchaAddressFails ==
    /\ pc = "hc_detect"
    /\ CaptchaRaises("current_url")

\* the operator presses Enter: input() returns
CaptchaConfirm ==
    /\ pc = "hc_input"
    /\ hc' = [hc EXCEPT !.confirmed = TRUE]
    /\ pc' = "hc_verify"
    /\ UNCHANGED << driver_path, domains, di, fi, conns, sessions, ledger,
                    pending, files, faults, links_used, search_results, li,
                    invoked, extracted, run_base, last,
                    batch_error, delayed >>

\* input() raises (EOFError on a closed standard input)
CaptchaConfirmFails ==
    /\ pc = "hc_input"
    /\ CaptchaRaises("input")

\* The verification wait: True when the address comes to contain the success
\* marker, otherwise the wait's TimeoutException is caught by the inner
\* except, which returns False.
CaptchaVerify ==
    /\ pc = "hc_verify"
    /\ \E addr \in Addresses :
         CaptchaReturns([hc EXCEPT !.verified = TRUE, !.address2 = addr],
                        VerificationSucceeds(addr))
    /\ UNCHANGED << driver_path, domains, di, fi, conns, sessions, ledger,
                    pending, files, faults, links_used, search_results, li,
                    invoked, extracted, run_base, last,
                    batch_error, delayed >>

\* The wait raises something else than a timeout (the session died): the
\* inner except catches every Exception and returns False.
CaptchaVerifyFails ==
    /\ pc = "hc_verify"
    /\ CanFault
    /\ faults' = faults + 1
    /\ CaptchaReturns([hc EXCEPT !.verified = TRUE, !.raised = "verify"], FALSE)
    /\ UNCHANGED << driver_path, domains, di, fi, conns, sessions, ledger,
                    pending, files, links_used, search_results, li, invoked,
                    extracted, run_base, last, batch_error, delayed >>

\* --------------------------------------- process_domain: the loop's body
\* if not handle_captcha(driver, search_url): ... continue
\* (the call's record is dropped once its result has been tested)
CaptchaCheck ==
    /\ pc = "pd_check"
    /\ pc' = AfterCaptcha(hc.result)
    /\ hc' = HcIdle
    /\ UNCHANGED << driver_path, domains, di, fi, conns, sessions, ledger,
                    pending, files, faults, links_used, search_results,
                    li, invoked, extracted, run_base, last,
                    batch_error, delayed >>

\* html = driver.page_source; soup.find_all("div", class_="g")
ReadPage ==
    /\ pc = "pd_page"
    /\ \E page \in Pages :
         /\ Len(page) <= MaxLinks - links_used
         /\ search_results' = page
         /\ links_used' = links_used + Len(page)
    /\ li' = 1
    /\ extracted' = TRUE
    /\ pc' = "pd_links"
    /\ UNCHANGED << driver_path, domains, di, fi, conns, sessions, ledger,
                    pending, files, faults, hc, invoked, run_base, last,
                    batch_error, delayed >>

\* driver.page_source or the parser raises: except block, then finally
ReadPageFails ==
    /\ pc = "pd_page"
    /\ CanFault
    /\ faults' = faults + 1
    /\ pc' = "pd_quit"
    /\ UNCHANGED << driver_path, domains, di, fi, conns, sessions, ledger,
                    pending, files, links_used, hc, search_results, li,
                    invoked, extracted, run_base, last,
                    batch_error, delayed >>

\* a result without a usable link, or whose link fails the file-type test
SkipResult ==
    /\ pc = "pd_links"
    /\ li <= Len(search_results)
    /\ ~IsCandidate(search_results[li], file_type)
    /\ li' = li + 1
    /\ last' = NoCall
    /\ UNCHANGED << pc, driver_path, domains, di, fi, conns, sessions,
                    ledger, pending, files, faults, links_used, hc,
                    search_results, invoked, extracted, run_base, batch_error, delayed >>

\* download_file(url, domain, file_type, cursor, conn) for a link that
\* passed; an exception leaving it ends the loops (except, then finally).
Download ==
    /\ pc = "pd_links"
    /\ li <= Len(search_results)
    /\ IsCandidate(search_results[li], file_type)
    /\ \E e \in DownloadEnvs :
         LET url  == search_results[li]
             r    == download_file(url, domain, file_type, e)
             all  == pending \o r.inserted
             path == LocalPath(url, domain, file_type)
         IN /\ FaultCost(e) <= MaxFaults - faults
            /\ faults' = faults + FaultCost(e)
            /\ pending' = IF r.committed THEN <<>> ELSE all
            /\ ledger' = IF r.committed
                         THEN [ledger EXCEPT ![domain] = @ \o all]
                         ELSE ledger
            /\ files' = IF r.wrote = "none" THEN files
                        ELSE {f \in files : f.path # path}
                             \cup {[path |-> path, content |-> r.wrote]}
            /\ last' = [called |-> TRUE, url |-> url, domain |-> domain,
                        file_type |-> file_type, env |-> e, ret |-> r.ret,
                        rows |-> IF r.committed THEN all ELSE <<>>,
                        wrote |-> r.wrote]
            /\ pc' = IF r.ret = "raise" THEN "pd_quit" ELSE "pd_links"
            /\ li' = IF r.ret = "raise" THEN li ELSE li + 1
    /\ invoked' = Append(invoked, search_results[li])
    /\ UNCHANGED << driver_path, domains, di, fi, conns, sessions,
                    links_used, hc, search_results, extracted, run_base, batch_error, delayed >>

\* the for loop over search_results is exhausted
LinksDone ==
    /\ pc = "pd_links"
    /\ li > Len(search_results)
    /\ pc' = "pd_sleep"
    /\ last' = NoCall
    /\ UNCHANGED << driver_path, domains, di, fi, conns, sessions, ledger,
                    pending, files, faults, links_used, hc, search_results,
                    li, invoked, extracted, run_base,
                    batch_error, delayed >>

\* time.sleep(2)
Sleep ==
    /\ pc = "pd_sleep"
    /\ pc' = "pd_loop"
    /\ search_results' = <<>>
    /\ li' = 0
    /\ invoked' = <<>>
    /\ extracted' = FALSE
    /\ delayed' = TRUE
    /\ UNCHANGED << driver_path, domains, di, fi, conns, sessions, ledger,
                    pending, files, faults, links_used, hc, run_base, last,
                    batch_error >>

\* --------------------------------------------- process_domain: finally
\* driver.quit()
QuitDriver ==
    /\ pc = "pd_quit"
    /\ sessions' = sessions \ {di}
    /\ pc' = "pd_close"
    /\ last' = NoCall
    /\ search_results' = <<>>
    /\ li' = 0
    /\ invoked' = <<>>
    /\ extracted' = FALSE
    /\ UNCHANGED << driver_path, domains, di, fi, conns, ledger, pending,
                    files, faults, links_used, hc, run_base,
                    batch_error, delayed >>

\* driver.quit() raises: the rest of the finally block is not run and the
\* exception leaves process_domain
QuitDriverFails ==
    /\ pc = "pd_quit"
    /\ CanFault
    /\ faults' = faults + 1
    /\ MainExcept
    /\ last' = NoCall
    /\ search_results' = <<>>
    /\ li' = 0
    /\ invoked' = <<>>
    /\ extracted' = FALSE
    /\ UNCHANGED << driver_path, domains, di, fi, conns, sessions, ledger,
                    pending, files, links_used, hc, run_base, delayed >>

\* conn.close(): rows inserted and not committed are rolled back
CloseDatabase ==
    /\ pc = "pd_close"
    /\ conns' = conns \ {di}
    /\ pending' = <<>>
    /\ pc' = "main_loop"
    /\ UNCHANGED << driver_path, domains, di, fi, sessions, ledger, files,
                    faults, links_used, hc, search_results, li, invoked,
                    extracted, run_base, last, batch_error, delayed >>

\* ---------------------------------------------------------- specification
Next ==
    \/ MainCheckPath
    \/ MainNextDomain
    \/ MainFinish
    \/ SetupDatabase
    \/ SetupDatabaseFails
    \/ SetupDriver
    \/ SetupDriverRejectsPath
    \/ SetupDriverFails
    \/ NextFileType
    \/ FileTypesDone
    \/ CaptchaNavigate
    \/ CaptchaNavigateFails
    \/ CaptchaDetect
    \/ CaptchaAddressFails
    \/ CaptchaConfirm
    \/ CaptchaConfirmFails
    \/ CaptchaVerify
    \/ CaptchaVerifyFails
    \/ CaptchaCheck
    \/ ReadPage
    \/ ReadPageFails
    \/ SkipResult
    \/ Download
    \/ LinksDone
    \/ Sleep
    \/ QuitDriver
    \/ QuitDriverFails
    \/ CloseDatabase

Spec == Init /\ [][Next]_vars

\* ------------------------------------------------------------------ claims
\* Rows committed to the current domain's ledger since process_domain opened it.
RunRows == SubSeq(ledger[domain], run_base + 1, Len(ledger[domain]))

\* The URLs of the rows of this run that carry the current file type.
RecordedUrls ==
    LET rows == SelectSeq(RunRows, LAMBDA r : r.file_type = file_type)
    IN [i \in 1..Len(rows) |-> rows[i].url]

IsErrorStatus(status) == Len(status) >= 1 /\ status[1] = "ERROR:"

\* The loops of the current file type are over: by exhaustion (pd_sleep) or
\* because an exception ended them (pd_quit, where only the finally block,
\* which appends nothing, is left to run).
FileTypeOver == pc \in {"pd_sleep", "pd_quit"} /\ extracted

\* C1: every download_file call appends exactly one row to the domain's
\* ledger, whatever its outcome (200, another status, or an exception at any
\* step of the call).
C1_ExactlyOneRowPerCall ==
    last.called => Len(last.rows) = 1

\* C2: whenever process_domain has been left (normally or by an exception),
\* no browser session and no ledger connection it acquired is still open.
C2_ResourcesReleasedOnExit ==
    (pc \in {"main_loop", "done"}) => (conns = {} /\ sessions = {})

\* C3: when the loops of a file type whose page was read are over, the ledger
\* holds exactly one row for each extracted link that passed the file-type
\* filter, in order; no candidate after a failed call is left without a row.
C3_EveryCandidateHasOneRow ==
    FileTypeOver => RecordedUrls = Candidates(search_results, file_type)

\* C4: when handle_captcha has returned False, the next step of process_domain
\* goes back to the head of the file-type loop of the same domain, with no
\* page read, no link extracted, no download_file call and no ledger row;
\* neither the session nor the ledger is closed.
C4_CaptchaFailureSkipsFileType ==
    [][ (pc = "pd_check" /\ ~hc.result) =>
          /\ pc' = "pd_loop"
          /\ di' = di /\ fi' = fi
          /\ ledger' = ledger /\ pending' = pending /\ files' = files
          /\ links_used' = links_used
          /\ search_results' = <<>> /\ invoked' = <<>> /\ ~extracted'
          /\ last' = last
          /\ conns' = conns /\ sessions' = sessions ]_vars

\* C4 witness: a file type has just been skipped (no delay has run since its
\* search) and another configured file type remains for the same domain.
C4_Witness ==
    /\ pc = "pd_loop" /\ fi >= 1 /\ fi < Len(file_types) /\ ~delayed
    /\ di \in conns /\ di \in sessions

\* C5: a transport or filesystem exception in one download_file call (before
\* the request, in the request, or while the body is written), with the
\* ledger working, makes the call return False with one row whose status is
\* prefixed "ERROR:", and process_domain goes on with the candidates.
C5_DownloadErrorsContained ==
    (last.called /\ last.env.tryFault \in {"mkdir", "get", "open", "stream"}
                 /\ last.env.hFault = "none") =>
        /\ last.ret = "False"
        /\ Len(last.rows) = 1
        /\ IsErrorStatus(last.rows[1].download_status)
        /\ pc = "pd_links"

C7_NoChallengeNoPrompt ==
    /\ (~hc.captcha_found /\ hc.address # Unread
          /\ ~Contains(Lower(hc.address), FAILURE_MARKER)) =>
           (hc.state = "returned" /\ hc.result /\ ~hc.prompted)
    /\ hc.prompted =>
           (hc.captcha_found
              \/ (hc.address # Unread
                    /\ Contains(Lower(hc.address), FAILURE_MARKER)))

\* C7 witness: a call returned True without a prompt on an unmarked address.
C7_Witness ==
    /\ hc.state = "returned" /\ hc.result /\ ~hc.prompted
    /\ ~hc.captcha_found /\ hc.address \in Addresses

\* C8: for a detected challenge the verification wait runs only after the
\* operator confirmation was received, and the call returns True exactly when
\* the address came to contain "search" within that wait.
C8_ChallengeResolution ==
    /\ hc.verified => hc.confirmed
    /\ hc.confirmed => hc.prompted
    /\ (hc.state = "returned" /\ hc.prompted) =>
           (hc.result <=> (hc.confirmed /\ hc.verified /\ hc.raised = "none"
                             /\ Contains(hc.address2, SUCCESS_MARKER)))

\* C8 witness: a detected challenge, confirmed by the operator, whose
\* verification found the success marker; the call returned True.
C8_Witness ==
    /\ hc.state = "returned" /\ hc.prompted /\ hc.confirmed /\ hc.verified
    /\ hc.result /\ Contains(hc.address2, SUCCESS_MARKER)

\* C9: when the loops of a file type whose page was read are over,
\* download_file has been invoked exactly once for each extracted link whose
\* lowercased URL contains "." + file type, in extraction order, and for no
\* other link.
C9_InvokedForEachMatchingLink ==
    FileTypeOver => invoked = Candidates(search_results, file_type)

\* The last call got a response whose status is not the success status.
LastNonSuccess ==
    last.called /\ last.env.resp # NoResponse
                /\ last.env.resp.status_code # HTTP_OK

C11_LaterDomainsStillProcessed ==
    (pc = "done" /\ DriverPathValid(driver_path)) => di = NumDomains

\* C12: with a driver path that does not exist, is no regular file or is not
\* executable, the program stops before any domain is processed: no ledger
\* connection is ever open and no browser session is ever started.
C12_InvalidPathStopsBeforeDomains ==
    ~DriverPathValid(driver_path) => (conns = {} /\ sessions = {})

\* C13: within one domain, whenever a file type is over and another one is
\* still to be searched, the inter-query delay has run since the last search
\* was issued, also when the file type was skipped on a failed challenge
\* check.
C13_DelayBetweenSearches ==
    (pc = "pd_loop" /\ fi >= 1 /\ fi < Len(file_types)) => delayed

\* A status the ledger may hold: "SUCCESS", "FAILED", or a text that begins
\* with "ERROR:".
ValidStatus(status) ==
    /\ Len(status) >= 1
    /\ \/ status = Status("SUCCESS")
       \/ status = Status("FAILED")
       \/ IsErrorStatus(status)

\* C14: in every reachable state every row of every domain ledger, committed
\* or inserted on the open connection, has a non-empty status that is exactly
\* "SUCCESS", exactly "FAILED", or begins with "ERROR:".
C14_StatusAlwaysValid ==
    /\ \A d \in DomainNames : \A i \in 1..Len(ledger[d]) :
           ValidStatus(ledger[d][i].download_status)
    /\ \A i \in 1..Len(pending) : ValidStatus(pending[i].download_status)

\* C14 witness: one ledger holds a SUCCESS row, a FAILED row and an ERROR row.
C14_Witness ==
    \E d \in DomainNames :
        /\ \E i \in 1..Len(ledger[d]) :
               ledger[d][i].download_status = Status("SUCCESS")
        /\ \E i \in 1..Len(ledger[d]) :
               ledger[d][i].download_status = Status("FAILED")
        /\ \E i \in 1..Len(ledger[d]) :
               IsErrorStatus(ledger[d][i].download_status)

\* C15: a domain's ledger is append-only under every step of the program
\* (download, skipped file type, abandonment of the domain on an exception,
\* teardown, re-opening the ledger of a domain processed before): the rows it
\* held are still there, unchanged and in the same order, and every new row
\* stands at the end, belongs to the ledger of the current domain and records
\* the URL of the download being attempted in this step, so the rows stand in
\* the order of the attempts.
C15_LedgerAppendOnly ==
    [][ \A d \in DomainNames :
          /\ Len(ledger'[d]) >= Len(ledger[d])
          /\ SubSeq(ledger'[d], 1, Len(ledger[d])) = ledger[d]
          /\ \A i \in (Len(ledger[d]) + 1)..Len(ledger'[d]) :
                 /\ pc = "pd_links"
                 /\ d = domain
                 /\ li <= Len(search_results)
                 /\ ledger'[d][i].url = search_results[li]
                 /\ ledger'[d][i].file_type = file_type ]_vars

\* C15 witness: the ledger of a domain that already had rows was opened again
\* by a later process_domain call, and a row was appended after the old ones.
C15_Witness ==
    /\ di >= 2 /\ domains[di] = domains[1] /\ di \in conns
    /\ run_base >= 1
    /\ Len(ledger[domain]) > run_base

\* C16: in every reachable state at most one browser session and at most one
\* ledger connection are open, both acquired by the current process_domain
\* call; when that call is about to open its ledger nothing of an earlier
\* domain is open, and its session is started only after its ledger; a
\* download_file call appends to the ledger of the current domain only, while
\* its connection is open, and only domains reached so far have rows.
C16_OneDomainAtATime ==
    /\ Cardinality(conns) <= 1 /\ Cardinality(sessions) <= 1
    /\ conns \subseteq {di} /\ sessions \subseteq {di}
    /\ (pc = "pd_db") => (conns = {} /\ sessions = {})
    /\ (pc = "pd_driver") => sessions = {}
    /\ last.called =>
           /\ last.domain = domain
           /\ di \in conns
           /\ \A i \in 1..Len(last.rows) :
                  ledger[domain][Len(ledger[domain]) - Len(last.rows) + i]
                      = last.rows[i]
    /\ pending # <<>> => di \in conns
    /\ \A d \in DomainNames :
           ledger[d] # <<>> => \E j \in 1..di : domains[j] = d

\* C16 witness: the second domain, distinct from the first, has its ledger
\* and its session open and has just appended a row, while the ledger of the
\* first domain holds rows and is closed.
C16_Witness ==
    /\ di = 2 /\ domains[1] # domains[2]
    /\ conns = {2} /\ sessions = {2}
    /\ last.called /\ Len(last.rows) >= 1
    /\ ledger[domains[1]] # <<>>

\* C17: every ledger row has file_size >= 0 and download_duration >= 0, for
\* every response the transport can return (whatever its content-length
\* header holds, present or absent) and on the error path.
C17_SizeAndDurationNonNegative ==
    \A d \in DomainNames : \A i \in 1..Len(ledger[d]) :
        /\ ledger[d][i].file_size >= 0
        /\ ledger[d][i].download_duration >= 0

\* Some row of a sequence has status "SUCCESS".
HasSuccessRow(rows) ==
    \E i \in 1..Len(rows) : rows[i].download_status = Status("SUCCESS")

\* C18: a download_file call has inserted a "SUCCESS" row, or returned True,
\* only when the response's status was the success code and the whole body
\* was written to the local file; when writing the body failed part-way the
\* call has no SUCCESS row, committed or pending.
C18_SuccessOnlyAfterFullWrite ==
    last.called =>
        /\ (HasSuccessRow(last.rows) \/ HasSuccessRow(pending)
              \/ last.ret = "True") =>
               /\ last.env.resp.status_code = HTTP_OK
               /\ last.wrote = "complete"
        /\ last.ret = "True" =>
               (Len(last.rows) = 1 /\ HasSuccessRow(last.rows))
        /\ last.wrote = "partial" =>
               (~HasSuccessRow(last.rows) /\ ~HasSuccessRow(pending))

\* C18 witness: a call returned True after a complete write, with one
\* SUCCESS row.
C18_Witness ==
    /\ last.called /\ last.ret = "True" /\ last.wrote = "complete"
    /\ Len(last.rows) = 1 /\ HasSuccessRow(last.rows)

\* C20: after every download_file call the domain directory agrees with the
\* ledger: a call whose row has status "FAILED" or "ERROR: ..." (also when
\* the exception was raised mid-stream, while the body was written) has left
\* no file, complete or partial, under the domain directory.
C20_NoFileWithoutSuccessRow ==
    (last.called /\ Len(last.rows) = 1
                 /\ last.rows[1].download_status # Status("SUCCESS")) =>
        last.wrote = "none"

\* The single thread of control always takes its next step: every external
\* call returns or raises, and every operator confirmation is given.
LiveSpec == Init /\ [][Next]_vars /\ WF_vars(Next)

\* The batch terminates.
Terminates == <>(pc = "done")

\* C19: provided every step is eventually taken, with a valid driver path
\* process_domain reaches its teardown (the finally block) for every domain
\* of the list, and the batch terminates.
C19_EveryDomainReachesTeardown ==
    /\ Terminates
    /\ \A k \in 1..NumDomains :
           <>(~DriverPathValid(driver_path) \/ (di = k /\ pc = "pd_quit"))

====
